---------------------------- MODULE Spec2Model ----------------------------
(***************************************************************************)
(* A model of pubmed_cli/__main__.py: the run of main() (esearch, efetch,  *)
(* extract_papers, output_csv and the top-level exception handlers) and    *)
(* the record extraction with its keyword heuristics.                      *)
(*                                                                         *)
(* Text is a sequence of one-character strings, so that substring search,  *)
(* lower-casing, stripping, joining, ordering and the e-mail pattern are   *)
(* computed character by character.  An optional text (the result of       *)
(* findtext / .text) is <<>> for Python's None and <<t>> for the text t.   *)
(***************************************************************************)
EXTENDS Integers, Sequences, FiniteSets, TLC

(***************************************************************************)
(* Characters                                                              *)
(***************************************************************************)
UpperLetters ==
    << "A", "B", "C", "D", "E", "F", "G", "H", "I", "J", "K", "L", "M",
       "N", "O", "P", "Q", "R", "S", "T", "U", "V", "W", "X", "Y", "Z" >>

LowerLetters ==
    << "a", "b", "c", "d", "e", "f", "g", "h", "i", "j", "k", "l", "m",
       "n", "o", "p", "q", "r", "s", "t", "u", "v", "w", "x", "y", "z" >>

Digits == << "0", "1", "2", "3", "4", "5", "6", "7", "8", "9" >>

\* The characters of the model's texts, in code point order.
CodePoints ==
    << "\t", "\n", " ", "%", "+", ",", "-", "." >> \o Digits
       \o << ":", ";", "@" >> \o UpperLetters \o << "_" >> \o LowerLetters

Range(s) == { s[i] : i \in 1..Len(s) }

Alphabet == Range(CodePoints)

Ord == [ c \in Alphabet |-> CHOOSE i \in 1..Len(CodePoints) : CodePoints[i] = c ]

AlphaChars == Range(UpperLetters) \cup Range(LowerLetters)

AlnumChars == AlphaChars \cup Range(Digits)

Whitespace == { " ", "\t", "\n" }

None == << >>

Some(t) == << t >>

IsNone(o) == Len(o) = 0

\* Python's  x or ""  for an optional text x
OrEmpty(o) == IF IsNone(o) THEN << >> ELSE o[1]

\* Python's  x or default : None and the empty text are both falsy
OrDefault(o, d) == IF IsNone(o) \/ Len(o[1]) = 0 THEN d ELSE o[1]

\* truthiness of an optional text
Truthy(o) == ~IsNone(o) /\ Len(o[1]) > 0

(***************************************************************************)
(* str.lower, str.strip, the in operator, str.join, the order of str       *)
(***************************************************************************)
LowerChar ==
    [ c \in Alphabet |->
        IF c \in Range(UpperLetters)
        THEN LowerLetters[CHOOSE i \in 1..26 : UpperLetters[i] = c]
        ELSE c ]

lower(t) == [ i \in 1..Len(t) |-> LowerChar[t[i]] ]

strip(t) ==
    LET keep == { i \in 1..Len(t) : t[i] \notin Whitespace }
    IN  IF keep = {} THEN << >>
        ELSE LET first == CHOOSE i \in keep : \A j \in keep : i <= j
                 last  == CHOOSE i \in keep : \A j \in keep : j <= i
             IN  SubSeq(t, first, last)

\* k in t
IsSubstring(k, t) ==
    \E i \in 1..(Len(t) - Len(k) + 1) :
        \A j \in 1..Len(k) : t[i + j - 1] = k[j]

RECURSIVE join(_, _)
join(sep, parts) ==
    IF Len(parts) = 0 THEN << >>
    ELSE IF Len(parts) = 1 THEN parts[1]
    ELSE parts[1] \o sep \o join(sep, Tail(parts))

\* s < t for two texts: the first differing code point decides, a proper
\* prefix is smaller
StrLess(s, t) ==
    \E i \in 1..(Len(t)) :
        /\ \A j \in 1..(i - 1) : j <= Len(s) /\ s[j] = t[j]
        /\ \/ i = Len(s) + 1
           \/ i <= Len(s) /\ Ord[s[i]] < Ord[t[i]]

\* sorted(S) for a set of texts S
RECURSIVE sorted(_)
sorted(S) ==
    IF S = {} THEN << >>
    ELSE LET m == CHOOSE x \in S : \A y \in S \ {x} : StrLess(x, y)
         IN  << m >> \o sorted(S \ {m})

(***************************************************************************)
(* Keyword sets and the e-mail pattern                                     *)
(***************************************************************************)
ACADEMIC_KEYWORDS ==
    << <<"u", "n", "i", "v", "e", "r", "s", "i", "t", "y">>,
       <<"c", "o", "l", "l", "e", "g", "e">>,
       <<"i", "n", "s", "t", "i", "t", "u", "t", "e">>,
       <<"s", "c", "h", "o", "o", "l", " ", "o", "f">>,
       <<"d", "e", "p", "a", "r", "t", "m", "e", "n", "t", " ", "o", "f">>,
       <<"f", "a", "c", "u", "l", "t", "y", " ", "o", "f">>,
       <<"r", "e", "s", "e", "a", "r", "c", "h", " ", "c", "e", "n", "t", "e", "r">>,
       <<"c", "e", "n", "t", "r", "e", " ", "f", "o", "r">>,
       <<"h", "o", "s", "p", "i", "t", "a", "l">>,
       <<"m", "e", "d", "i", "c", "a", "l", " ", "c", "e", "n", "t", "e", "r">>,
       <<"c", "l", "i", "n", "i", "c">> >>

COMPANY_KEYWORDS ==
    << <<"i", "n", "c">>,
       <<"l", "t", "d">>,
       <<"l", "l", "c">>,
       <<"g", "m", "b", "h">>,
       <<"c", "o", "r", "p", "o", "r", "a", "t", "i", "o", "n">>,
       <<"c", "o", "r", "p">>,
       <<"p", "h", "a", "r", "m", "a">>,
       <<"b", "i", "o", "t", "e", "c", "h">>,
       <<"b", "i", "o", "t", "e", "c", "h", "n", "o", "l", "o", "g", "y">>,
       <<"t", "e", "c", "h", "n", "o", "l", "o", "g", "i", "e", "s">>,
       <<"s", "y", "s", "t", "e", "m", "s">>,
       <<"b", "i", "o">>,
       <<"l", "a", "b", "o", "r", "a", "t", "o", "r", "i", "e", "s">>,
       <<"l", "a", "b", "o", "r", "a", "t", "o", "r", "y">>,
       <<"s", "a", "s">>,
       <<"s", "a">>,
       <<"n", "v">>,
       <<"a", "b">>,
       <<"c", "o", ".">>,
       <<"a", "g">> >>

\* [A-Za-z0-9._%+-]
LocalChars == AlnumChars \cup { ".", "_", "%", "+", "-" }

\* [A-Za-z0-9.-]
DomainChars == AlnumChars \cup { ".", "-" }

\* The matches of  [A-Za-z0-9._%+-]+@[A-Za-z0-9.-]+\.[A-Za-z]{2,}  in t, as
\* <<i, j, p, e>> : the local part is t[i..j-1], t[j] is the "@", the domain
\* labels are t[j+1..p], t[p+1] is the "." and the last label is t[p+2..e].
EmailMatches(t) ==
    LET n == Len(t)
        ats == { j \in 2..n : t[j] = "@" }
        starts(j) == { i \in 1..(j - 1) : \A k \in i..(j - 1) : t[k] \in LocalChars }
        dots(j) == { p \in (j + 1)..(n - 3) :
                       /\ t[p + 1] = "."
                       /\ \A k \in (j + 1)..p : t[k] \in DomainChars }
        ends(p) == { e \in (p + 3)..n : \A k \in (p + 2)..e : t[k] \in AlphaChars }
    IN  UNION { UNION { UNION { { << i, j, p, e >> : e \in ends(p) }
                                : p \in dots(j) }
                        : i \in starts(j) }
                : j \in ats }

\* EMAIL_REGEX.search(t): None, or the text of the match that starts leftmost,
\* each greedy repetition taking as much as a match allows, the earlier
\* repetition first.
EMAIL_REGEX_search(t) ==
    LET ms == EmailMatches(t)
    IN  IF ms = {} THEN None
        ELSE LET i  == CHOOSE x \in { m[1] : m \in ms } :
                          \A m \in ms : x <= m[1]
                 m1 == { m \in ms : m[1] = i }
                 j  == CHOOSE x \in { m[2] : m \in m1 } :
                          \A m \in m1 : m[2] <= x
                 m2 == { m \in m1 : m[2] = j }
                 p  == CHOOSE x \in { m[3] : m \in m2 } :
                          \A m \in m2 : m[3] <= x
                 m3 == { m \in m2 : m[3] = p }
                 e  == CHOOSE x \in { m[4] : m \in m3 } :
                          \A m \in m3 : m[4] <= x
             IN  Some(SubSeq(t, i, e))

\* contains_keyword without the lower-casing of the text
contains_keyword_case_sensitive(text, keywords) ==
    \E n \in 1..Len(keywords) : IsSubstring(keywords[n], text)

contains_keyword(text, keywords) ==
    LET lowered == lower(text)
    IN  \E n \in 1..Len(keywords) : IsSubstring(lower(keywords[n]), lowered)

(***************************************************************************)
(* extract_papers.  A parsed document is the sequence of its PubmedArticle *)
(* elements in document order; an article is                               *)
(*   [PMID, ArticleTitle : optional text,                                  *)
(*    PubDate : <<>> or <<[Year, MedlineDate, Month, Day : optional text]>>,*)
(*    Authors : sequence of [LastName, ForeName : optional text,           *)
(*                           Affiliations : sequence of optional text]]    *)
(***************************************************************************)
FIELDNAMES ==
    << "PubmedID", "Title", "Publication Date", "Non-academicAuthor(s)",
       "CompanyAffiliation(s)", "Corresponding Author Email" >>

\* pub_date_of with the MedlineDate tested before the Year
pub_date_of_medline_first(article) ==
    IF IsNone(article.PubDate) THEN << >>
    ELSE LET pubdate_node == article.PubDate[1]
             year    == pubdate_node.Year
             medline == pubdate_node.MedlineDate
             month   == OrDefault(pubdate_node.Month, << "0", "1" >>)
             day     == OrDefault(pubdate_node.Day, << "0", "1" >>)
         IN  IF Truthy(medline) THEN medline[1]
             ELSE IF Truthy(year)
                  THEN year[1] \o << "-" >> \o month \o << "-" >> \o day
             ELSE << >>

pub_date_of(article) ==
    IF IsNone(article.PubDate) THEN << >>
    ELSE LET pubdate_node == article.PubDate[1]
             year    == pubdate_node.Year
             medline == pubdate_node.MedlineDate
             month   == OrDefault(pubdate_node.Month, << "0", "1" >>)
             day     == OrDefault(pubdate_node.Day, << "0", "1" >>)
         IN  IF Truthy(year) THEN year[1] \o << "-" >> \o month \o << "-" >> \o day
             ELSE IF Truthy(medline) THEN medline[1]
             ELSE << >>

\* the loop of lines 92-94 over the Affiliation elements of one author
RECURSIVE affs_of(_)
affs_of(elements) ==
    IF Len(elements) = 0 THEN << >>
    ELSE LET aff == Head(elements)
         IN  (IF Truthy(aff) THEN << strip(aff[1]) >> ELSE << >>)
                 \o affs_of(Tail(elements))

authors_info_of(article) ==
    [ i \in 1..Len(article.Authors) |->
        LET author   == article.Authors[i]
            lastname == OrEmpty(author.LastName)
            forename == OrEmpty(author.ForeName)
        IN  [ name         |-> strip(forename \o << " " >> \o lastname),
              affiliations |-> affs_of(author.Affiliations) ] ]

\* is_academic_author with all() in place of any()
is_academic_author_all(a) ==
    \A n \in 1..Len(a.affiliations) :
        contains_keyword(a.affiliations[n], ACADEMIC_KEYWORDS)

is_academic_author(a) ==
    \E n \in 1..Len(a.affiliations) :
        contains_keyword(a.affiliations[n], ACADEMIC_KEYWORDS)

\* the names the loop of lines 100-103 appends, in order
RECURSIVE non_academic_authors_of(_)
non_academic_authors_of(authors_info) ==
    IF Len(authors_info) = 0 THEN << >>
    ELSE LET a == Head(authors_info)
         IN  (IF ~is_academic_author(a) /\ Len(a.name) > 0
              THEN << a.name >> ELSE << >>)
                 \o non_academic_authors_of(Tail(authors_info))

\* the affiliations the loop of lines 104-107 appends for one author
RECURSIVE company_affiliations_in(_)
company_affiliations_in(affiliations) ==
    IF Len(affiliations) = 0 THEN << >>
    ELSE LET aff == Head(affiliations)
         IN  (IF contains_keyword(aff, COMPANY_KEYWORDS) THEN << aff >> ELSE << >>)
                 \o company_affiliations_in(Tail(affiliations))

\* company_affiliations_of with the inner loop run for the non-academic
\* authors only
RECURSIVE company_affiliations_of_non_academic(_)
company_affiliations_of_non_academic(authors_info) ==
    IF Len(authors_info) = 0 THEN << >>
    ELSE (IF is_academic_author(Head(authors_info)) THEN << >>
          ELSE company_affiliations_in(Head(authors_info).affiliations))
             \o company_affiliations_of_non_academic(Tail(authors_info))

\* the affiliations the loop of lines 100-107 appends, in order
RECURSIVE company_affiliations_of(_)
company_affiliations_of(authors_info) ==
    IF Len(authors_info) = 0 THEN << >>
    ELSE company_affiliations_in(Head(authors_info).affiliations)
             \o company_affiliations_of(Tail(authors_info))

\* the inner loop of lines 115-119: the first match, leaving at the break
RECURSIVE email_in_affiliations(_)
email_in_affiliations(affiliations) ==
    IF Len(affiliations) = 0 THEN << >>
    ELSE LET match == EMAIL_REGEX_search(Head(affiliations))
         IN  IF ~IsNone(match) THEN match[1]
             ELSE email_in_affiliations(Tail(affiliations))

\* email_of without the break of lines 120-121: a later author's match
\* replaces an earlier one
RECURSIVE email_of_no_break(_)
email_of_no_break(authors_info) ==
    IF Len(authors_info) = 0 THEN << >>
    ELSE LET later == email_of_no_break(Tail(authors_info))
         IN  IF Len(later) > 0 THEN later
             ELSE email_in_affiliations(Head(authors_info).affiliations)

\* the outer loop of lines 113-121
RECURSIVE email_of(_)
email_of(authors_info) ==
    IF Len(authors_info) = 0 THEN << >>
    ELSE LET email == email_in_affiliations(Head(authors_info).affiliations)
         IN  IF Len(email) > 0 THEN email
             ELSE email_of(Tail(authors_info))

extract_record(article) ==
    LET authors_info == authors_info_of(article)
        non_academic_authors == non_academic_authors_of(authors_info)
        company_affiliations == company_affiliations_of(authors_info)
        company_affiliations_unique == sorted(Range(company_affiliations))
    IN  ("PubmedID" :> OrEmpty(article.PMID))
        @@ ("Title" :> OrEmpty(article.ArticleTitle))
        @@ ("Publication Date" :> pub_date_of(article))
        @@ ("Non-academicAuthor(s)" :>
               IF Len(non_academic_authors) > 0
               THEN join(<< ";", " " >>, sorted(Range(non_academic_authors)))
               ELSE << >>)
        @@ ("CompanyAffiliation(s)" :>
               join(<< ";", " " >>, company_affiliations_unique))
        @@ ("Corresponding Author Email" :> email_of(authors_info))

\* extract_loop with a record appended only if it is not in results yet
RECURSIVE extract_loop_dedup(_, _)
extract_loop_dedup(articles, results) ==
    IF Len(articles) = 0 THEN results
    ELSE LET record == extract_record(Head(articles))
         IN  extract_loop_dedup(Tail(articles),
                 IF record \in Range(results) THEN results
                 ELSE Append(results, record))

\* the loop of lines 68-132: one record appended per article, in order
RECURSIVE extract_loop(_, _)
extract_loop(articles, results) ==
    IF Len(articles) = 0 THEN results
    ELSE extract_loop(Tail(articles),
                      Append(results, extract_record(Head(articles))))

(***************************************************************************)
(* The run of main()                                                       *)
(***************************************************************************)
VARIABLES
    pc,           \* where main() is: "esearch", "efetch", "extract", "output", "done"
    args,         \* the parsed command line: [debug, file]
    pmids,        \* main's pmids
    xml_data,     \* main's xml_data
    papers,       \* main's papers
    stderr,       \* the lines printed to sys.stderr
    stdout,       \* the lines printed to sys.stdout by print()
    report,       \* what csv.DictWriter wrote, and where
    exit_status,  \* <<>> while main() runs, <<n>> once the process has ended
    raised,       \* the exception main()'s try block ended with, "" if none
    calls         \* the functions main() has called so far, in order

vars == << pc, args, pmids, xml_data, papers, stderr, stdout, report,
           exit_status, raised, calls >>

\* the text of a response or of xml_data: not XML at all ("" included), or a
\* document with its PubmedArticle elements
NoXml == [ kind |-> "", articles |-> << >> ]

EmptyText == [ kind |-> "empty", articles |-> << >> ]

Malformed == [ kind |-> "malformed", articles |-> << >> ]

Document(articles) == [ kind |-> "xml", articles |-> articles ]

Line(text, e) == [ text |-> text, e |-> e ]

debug_print(message, enabled) ==
    IF enabled THEN << Line("[DEBUG] ", message) >> ELSE << >>

\* efetch's answer for the text  resp  of a successful response
efetch(ids, resp) == IF Len(ids) = 0 THEN EmptyText ELSE resp

\* fromstring_raises with a document without articles refused as well
fromstring_raises_on_empty(xml_text) ==
    xml_text.kind # "xml" \/ Len(xml_text.articles) = 0

\* ET.fromstring (line 65) raises ParseError on a text that is no XML document
fromstring_raises(xml_text) == xml_text.kind # "xml"

\* lines 66-134, for a text that parses
extract_papers(xml_text) == extract_loop(xml_text.articles, << >>)

\* no_pmids with the test of line 172 left out
no_pmids_never(idlist) == FALSE

\* line 172:  not pmids
no_pmids(idlist) == Len(idlist) = 0

NoticeLine == Line("No papers found for the query.", "")

\* main() returns; nothing in the module calls sys.exit, so the interpreter
\* ends with status 0
Return ==
    /\ pc' = "done"
    /\ exit_status' = << 0 >>

\* handler_line without the exception in the text
handler_line_no_cause(e) ==
    IF e = "HTTPError"
    THEN Line("HTTP error during PubMed access: ", "")
    ELSE Line("Unexpected error: ", "")

\* what the except clause that catches e prints
handler_line(e) ==
    IF e = "HTTPError"
    THEN Line("HTTP error during PubMed access: ", e)
    ELSE Line("Unexpected error: ", e)

\* the two except clauses of main(), reached with exception e after err was
\* printed: the line is printed and main() returns
Except(e, err) ==
    /\ raised' = e
    /\ stderr' = Append(err, handler_line(e))
    /\ Return

(***************************************************************************)
(* Inputs                                                                  *)
(***************************************************************************)
MaxIds == 2

MaxRecords == 2

MaxAuthors == 2

MaxAffiliations == 2

Text1 == << "1" >>

Text2 == << "2" >>

Ids == { Text1, Text2 }

SeqsUpTo(S, n) == UNION { [ 1..k -> S ] : k \in 0..n }

IdLists == SeqsUpTo(Ids, MaxIds)

\* what the requests and the parsing inside esearch and efetch may raise
EsearchFaults == { "HTTPError", "ConnectionError", "ValueError" }

EfetchFaults == { "HTTPError", "ConnectionError" }

OutFile == << "o", ".", "c", "s", "v" >>

AffBiology ==
    <<"D", "e", "p", "a", "r", "t", "m", "e", "n", "t", " ", "o", "f", " ",
      "B", "i", "o", "l", "o", "g", "y", ",", " ", "U", "n", "i", "v", "e",
      "r", "s", "i", "t", "y", " ", "o", "f", " ", "X">>

AffAcme ==
    <<"A", "c", "m", "e", " ", "B", "i", "o", "t", "e", "c", "h", " ", "I",
      "n", "c", ",", " ", "c", "o", "n", "t", "a", "c", "t", ":", " ", "j",
      "a", "n", "e", "@", "a", "c", "m", "e", ".", "c", "o", "m">>

AffHospital ==
    <<"C", "i", "t", "y", " ", "H", "o", "s", "p", "i", "t", "a", "l", ",",
      " ", "b", "o", "b", "@", "x", ".", "o", "r", "g">>

\* the text of an Affiliation element: none, or one of the three affiliations,
\* the last one as an indented element carries it
AffPool ==
    { None, Some(AffBiology), Some(AffAcme),
      Some(<< "\n", " " >> \o AffHospital \o << " " >>) }

NamePool ==
    { [ ForeName |-> None, LastName |-> None ],
      [ ForeName |-> Some(<< "J", "a", "n", "e" >>),
        LastName |-> Some(<< "D", "o", "e" >>) ],
      [ ForeName |-> None, LastName |-> Some(<< "A", "b", "e" >>) ] }

\* the authors with exactly k Affiliation elements
AuthorsWith(k) ==
    { [ ForeName |-> nm.ForeName, LastName |-> nm.LastName, Affiliations |-> affs ] :
        nm \in NamePool, affs \in [ 1..k -> AffPool ] }

\* the author lists of length n with at most budget Affiliation elements in all
RECURSIVE AuthorListsOf(_, _)
AuthorListsOf(n, budget) ==
    IF n = 0 THEN { << >> }
    ELSE UNION { { << a >> \o rest :
                     a \in AuthorsWith(k), rest \in AuthorListsOf(n - 1, budget - k) }
                 : k \in 0..budget }

AuthorLists == UNION { AuthorListsOf(n, MaxAffiliations) : n \in 0..MaxAuthors }

Year2020 == << "2", "0", "2", "0" >>

MedlineSpring == << "2", "0", "2", "0", " ", "S", "p", "r", "i", "n", "g" >>

PubDates ==
    { None } \cup
    { Some([ Year |-> y, MedlineDate |-> md, Month |-> m, Day |-> d ]) :
        y  \in { None, Some(<< >>), Some(Year2020) },
        md \in { None, Some(MedlineSpring) },
        m  \in { None, Some(<< >>), Some(<< "J", "u", "n" >>) },
        d  \in { None, Some(<< "1", "5" >>) } }

DefaultDate ==
    Some([ Year |-> Some(Year2020), MedlineDate |-> None,
           Month |-> None, Day |-> None ])

TitleT == << "T" >>

\* the articles of the extraction runs: every date with every presence of
\* PMID and title, and every author list
Articles ==
    { [ PMID |-> id, ArticleTitle |-> ti, PubDate |-> pd, Authors |-> << >> ] :
        id \in { None, Some(Text1) }, ti \in { None, Some(TitleT) },
        pd \in PubDates }
    \cup
    { [ PMID |-> Some(Text1), ArticleTitle |-> Some(TitleT),
        PubDate |-> DefaultDate, Authors |-> al ] : al \in AuthorLists }

JaneAtAcme ==
    [ ForeName |-> Some(<< "J", "a", "n", "e" >>),
      LastName |-> Some(<< "D", "o", "e" >>),
      Affiliations |-> << Some(AffAcme) >> ]

AbeAtBiology ==
    [ ForeName |-> None, LastName |-> Some(<< "A", "b", "e" >>),
      Affiliations |-> << Some(AffBiology) >> ]

\* the articles of the batches of a whole run
SampleArticles ==
    { [ PMID |-> Some(Text1), ArticleTitle |-> Some(TitleT),
        PubDate |-> DefaultDate, Authors |-> << JaneAtAcme >> ],
      [ PMID |-> Some(Text2), ArticleTitle |-> None,
        PubDate |-> Some([ Year |-> None, MedlineDate |-> Some(MedlineSpring),
                           Month |-> None, Day |-> None ]),
        Authors |-> << AbeAtBiology, JaneAtAcme >> ],
      [ PMID |-> None, ArticleTitle |-> None, PubDate |-> None,
        Authors |-> << >> ] }

\* the texts a successful efetch response may carry
Responses ==
    { EmptyText, Malformed }
    \cup { Document(b) : b \in SeqsUpTo(SampleArticles, MaxRecords) }

(***************************************************************************)
(* Actions                                                                 *)
(***************************************************************************)
Init ==
    /\ pc = "esearch"
    /\ args \in [ debug : BOOLEAN, file : { None, Some(OutFile) } ]
    /\ pmids = << >>
    /\ xml_data = NoXml
    /\ papers = << >>
    /\ stderr = << >>
    /\ stdout = << >>
    /\ report = << >>
    /\ exit_status = << >>
    /\ raised = ""
    /\ calls = << >>

\* lines 171-176: esearch, then the test of pmids
Esearch ==
    /\ pc = "esearch"
    /\ calls' = Append(calls, "esearch")
    /\ \E fault \in EsearchFaults \cup { "" }, idlist \in IdLists :
         LET err == stderr \o debug_print("Calling esearch", args.debug)
             out == err \o debug_print("esearch result", args.debug)
         IN  IF fault # ""
             THEN /\ idlist = << >>
                  /\ Except(fault, err)
                  /\ UNCHANGED pmids
             ELSE /\ pmids' = idlist
                  /\ UNCHANGED raised
                  /\ IF no_pmids(idlist)
                     THEN /\ stderr' = Append(out, NoticeLine)
                          /\ Return
                     ELSE /\ stderr' = out \o debug_print("Total hits", args.debug)
                          /\ pc' = "efetch"
                          /\ UNCHANGED exit_status
    /\ UNCHANGED << args, xml_data, papers, stdout, report >>

\* line 177
Efetch ==
    /\ pc = "efetch"
    /\ calls' = Append(calls, "efetch")
    /\ \E fault \in EfetchFaults \cup { "" }, resp \in Responses :
         LET err == stderr \o (IF Len(pmids) = 0 THEN << >>
                               ELSE debug_print("Calling efetch", args.debug))
         IN  IF fault # "" /\ Len(pmids) > 0
             THEN /\ resp = EmptyText
                  /\ Except(fault, err)
                  /\ UNCHANGED xml_data
             ELSE /\ fault = ""
                  /\ xml_data' = efetch(pmids, resp)
                  /\ stderr' = err
                  /\ pc' = "extract"
                  /\ UNCHANGED << exit_status, raised >>
    /\ UNCHANGED << args, pmids, papers, stdout, report >>

\* line 178
ExtractPapers ==
    /\ pc = "extract"
    /\ calls' = Append(calls, "extract_papers")
    /\ IF fromstring_raises(xml_data)
       THEN /\ Except("ParseError", stderr)
            /\ UNCHANGED papers
       ELSE /\ papers' = extract_papers(xml_data)
            /\ stderr' = stderr \o
                  (IF args.debug
                   THEN [ i \in 1..Len(papers') |->
                            Line("[DEBUG] ", "Extracted record") ]
                   ELSE << >>)
            /\ pc' = "output"
            /\ UNCHANGED << exit_status, raised >>
    /\ UNCHANGED << args, pmids, xml_data, stdout, report >>

\* line 179: output_csv, whose open() may fail, and the return of main()
OutputCsv ==
    /\ pc = "output"
    /\ calls' = Append(calls, "output_csv")
    /\ IF Truthy(args.file)
       THEN \E opened \in BOOLEAN :
              IF opened
              THEN /\ report' = Append(report,
                        [ to |-> args.file, header |-> FIELDNAMES, rows |-> papers ])
                   /\ stdout' = Append(stdout, Line("Saved records", Len(papers)))
                   /\ UNCHANGED << stderr, raised >>
                   /\ Return
              ELSE /\ Except("OSError", stderr)
                   /\ UNCHANGED << report, stdout >>
       ELSE /\ report' = Append(report,
                   [ to |-> None, header |-> FIELDNAMES, rows |-> papers ])
            /\ UNCHANGED << stdout, stderr, raised >>
            /\ Return
    /\ UNCHANGED << args, pmids, xml_data, papers >>

Next == Esearch \/ Efetch \/ ExtractPapers \/ OutputCsv

Spec == Init /\ [][Next]_vars

\* The extraction of one article: main() after efetch has returned a
\* document with that article, without --debug and without --file.
InitExtract ==
    /\ pc = "extract"
    /\ args = [ debug |-> FALSE, file |-> None ]
    /\ pmids = << Text1 >>
    /\ xml_data \in { Document(<< a >>) : a \in Articles }
    /\ papers = << >>
    /\ stderr = << >>
    /\ stdout = << >>
    /\ report = << >>
    /\ exit_status = << >>
    /\ raised = ""
    /\ calls = << "esearch", "efetch" >>

NextExtract == ExtractPapers

SpecExtract == InitExtract /\ [][NextExtract]_vars

(***************************************************************************)
(* Properties                                                              *)
(***************************************************************************)
Called(f) == \E i \in 1..Len(calls) : calls[i] = f

\* extract_papers has run and returned
Extracted == Called("extract_papers") /\ xml_data.kind = "xml"

\* esearch has returned, and its identifier list was empty
SearchReturnedEmpty == Called("esearch") /\ raised = "" /\ Len(pmids) = 0

\* the fetched text is a document without any record
ZeroRecords == xml_data.kind = "xml" /\ Len(xml_data.articles) = 0

LastLine == stderr[Len(stderr)]

\* cell.split("; ")
RECURSIVE Split(_)
Split(cell) ==
    LET cuts == { i \in 1..(Len(cell) - 1) : cell[i] = ";" /\ cell[i + 1] = " " }
    IN  IF cuts = {} THEN << cell >>
        ELSE LET c == CHOOSE i \in cuts : \A j \in cuts : i <= j
             IN  << SubSeq(cell, 1, c - 1) >> \o Split(SubSeq(cell, c + 2, Len(cell)))

\* the values joined in a cell of a record
Entries(cell) == IF Len(cell) = 0 THEN << >> ELSE Split(cell)

StrictlySorted(s) == \A i \in 1..(Len(s) - 1) : StrLess(s[i], s[i + 1])

Academic(aff) == contains_keyword(aff, ACADEMIC_KEYWORDS)

Company(aff) == contains_keyword(aff, COMPANY_KEYWORDS)

NonAcademic(a) == \A n \in 1..Len(a.affiliations) : ~Academic(a.affiliations[n])

NamesOf(k) == Entries(papers[k]["Non-academicAuthor(s)"])

CompaniesOf(k) == Entries(papers[k]["CompanyAffiliation(s)"])

InfoOf(k) == authors_info_of(xml_data.articles[k])

Text01 == << "0", "1" >>

Dash == << "-" >>

\* C1: the non-academic authors of every record are exactly the non-empty
\* names of the authors without an academic affiliation, each once, in
\* lexicographic order; a named author without affiliations is among them and
\* the empty name never is.
C1_NonAcademicAuthors ==
    Extracted =>
      \A k \in 1..Len(papers) :
        LET info == InfoOf(k)
            expected == { info[i].name :
                            i \in { j \in 1..Len(info) :
                                      Len(info[j].name) > 0 /\ NonAcademic(info[j]) } }
            emitted == NamesOf(k)
        IN  /\ Range(emitted) = expected
            /\ StrictlySorted(emitted)
            /\ << >> \notin Range(emitted)
            /\ \A i \in 1..Len(info) :
                 (Len(info[i].affiliations) = 0 /\ Len(info[i].name) > 0)
                    => info[i].name \in Range(emitted)

\* two named authors without an academic affiliation, the first of them
\* without any affiliation, emitted in the other order
C1_Witness ==
    /\ pc = "output"
    /\ Len(papers) = 1
    /\ Len(InfoOf(1)) = 2
    /\ Len(InfoOf(1)[1].affiliations) = 0
    /\ Len(NamesOf(1)) = 2
    /\ NamesOf(1)[2] = InfoOf(1)[1].name

C3_FirstEmail ==
    Extracted =>
      \A k \in 1..Len(papers) :
        LET info == InfoOf(k)
            email == papers[k]["Corresponding Author Email"]
            hits == { h \in UNION { { << i, n >> : n \in 1..Len(info[i].affiliations) }
                                    : i \in 1..Len(info) } :
                        ~IsNone(EMAIL_REGEX_search(info[h[1]].affiliations[h[2]])) }
        IN  IF hits = {} THEN Len(email) = 0
            ELSE LET first == CHOOSE h \in hits :
                                \A g \in hits :
                                   h[1] < g[1] \/ (h[1] = g[1] /\ h[2] <= g[2])
                 IN  /\ Len(email) > 0
                     /\ << email >> =
                          EMAIL_REGEX_search(info[first[1]].affiliations[first[2]])

\* two authors whose affiliations carry different addresses
C3_Witness ==
    /\ pc = "output"
    /\ Len(papers) = 1
    /\ Len(InfoOf(1)) = 2
    /\ InfoOf(1)[1].affiliations = << AffHospital >>
    /\ InfoOf(1)[2].affiliations = << AffAcme >>
    /\ papers[1]["Corresponding Author Email"] =
          << "b", "o", "b", "@", "x", ".", "o", "r", "g" >>

\* C4: the publication date of every record is year-month-day with "01" for
\* a missing month or day when there is a year, else the MedlineDate text when
\* there is one, else empty.
C4_PublicationDate ==
    Extracted =>
      \A k \in 1..Len(papers) :
        LET node == xml_data.articles[k].PubDate
            date == papers[k]["Publication Date"]
        IN  IF IsNone(node) THEN Len(date) = 0
            ELSE LET d == node[1]
                 IN  IF Truthy(d.Year)
                     THEN date = d.Year[1]
                                   \o Dash \o (IF Truthy(d.Month) THEN d.Month[1] ELSE Text01)
                                   \o Dash \o (IF Truthy(d.Day) THEN d.Day[1] ELSE Text01)
                     ELSE IF Truthy(d.MedlineDate) THEN date = d.MedlineDate[1]
                     ELSE Len(date) = 0

\* a year and a day with a MedlineDate and no month
C4_Witness ==
    /\ pc = "output"
    /\ Len(papers) = 1
    /\ ~IsNone(xml_data.articles[1].PubDate)
    /\ IsNone(xml_data.articles[1].PubDate[1].Month)
    /\ Truthy(xml_data.articles[1].PubDate[1].MedlineDate)
    /\ papers[1]["Publication Date"] =
          << "2", "0", "2", "0", "-", "0", "1", "-", "1", "5" >>

\* C5: extract_papers returns one record per article, the i-th from the i-th
\* article, also when two articles are the same.
C5_OnePaperPerRecord ==
    Extracted =>
      /\ Len(papers) = Len(xml_data.articles)
      /\ \A i \in 1..Len(papers) :
           /\ papers[i] = extract_record(xml_data.articles[i])
           /\ papers[i]["PubmedID"] = OrEmpty(xml_data.articles[i].PMID)

\* a batch of the same article twice
C5_Witness ==
    /\ pc = "output"
    /\ Len(xml_data.articles) = 2
    /\ xml_data.articles[1] = xml_data.articles[2]
    /\ Len(papers) = 2
    /\ papers[1] = papers[2]

\* C6: once esearch has returned an empty list the run is over, with the
\* notice as the last line of stderr, status 0 and no other call made; and
\* output_csv is called only in runs whose esearch returned identifiers.
C6_EmptySearchEndsRun ==
    /\ SearchReturnedEmpty =>
         /\ pc = "done"
         /\ exit_status = << 0 >>
         /\ calls = << "esearch" >>
         /\ Len(stderr) > 0
         /\ LastLine = NoticeLine
         /\ Len(report) = 0
    /\ Called("output_csv") =>
         /\ calls[1] = "esearch"
         /\ Len(pmids) > 0

C6_Witness ==
    /\ pc = "done"
    /\ SearchReturnedEmpty
    /\ LastLine = NoticeLine

RemoteErrors == { "HTTPError", "ConnectionError" }

\* C7: once esearch or efetch has failed with a remote error the run is over:
\* the failed call was the last call and was made once, output_csv was not
\* called, and the last line of stderr carries the exception.
C7_RemoteErrorEndsRun ==
    raised \in RemoteErrors =>
      /\ pc = "done"
      /\ Len(exit_status) = 1
      /\ calls \in { << "esearch" >>, << "esearch", "efetch" >> }
      /\ Len(report) = 0
      /\ Len(stderr) > 0
      /\ LastLine.e = raised

\* efetch failed after a successful esearch
C7_Witness ==
    /\ pc = "done"
    /\ raised = "HTTPError"
    /\ calls = << "esearch", "efetch" >>
    /\ LastLine = Line("HTTP error during PubMed access: ", "HTTPError")

\* C8: a run that found nothing ends with the notice and status 0, a run that
\* failed ends with a diagnostic line and a status other than 0.
C8_ExitStatus ==
    pc = "done" =>
      /\ SearchReturnedEmpty => (exit_status = << 0 >> /\ LastLine = NoticeLine)
      /\ raised # "" =>
           /\ Len(stderr) > 0
           /\ LastLine.e = raised
           /\ exit_status # << 0 >>

\* C9 as written: an author with the affiliation "Department of Biology,
\* University of X", or with any affiliation that has an academic and no
\* company keyword, is not among the non-academic authors, and the affiliation
\* is not among the company affiliations.
C9_Original ==
    Extracted =>
      \A k \in 1..Len(papers) :
        \A i \in 1..Len(InfoOf(k)) :
          \A n \in 1..Len(InfoOf(k)[i].affiliations) :
            LET aff == InfoOf(k)[i].affiliations[n]
            IN  (aff = AffBiology \/ (Academic(aff) /\ ~Company(aff)))
                   => /\ InfoOf(k)[i].name \notin Range(NamesOf(k))
                      /\ aff \notin Range(CompaniesOf(k))

\* C9 amended: an author with an academic affiliation adds no name (the name
\* is emitted only for a non-academic author of the same name); an affiliation
\* without a company keyword is no company affiliation; "Department of
\* Biology, University of X" contains the company keyword "bio" and is one.
C9_AcademicAffiliation ==
    Extracted =>
      \A k \in 1..Len(papers) :
        \A i \in 1..Len(InfoOf(k)) :
          \A n \in 1..Len(InfoOf(k)[i].affiliations) :
            LET info == InfoOf(k)
                aff  == info[i].affiliations[n]
            IN  /\ Academic(aff) =>
                     (info[i].name \in Range(NamesOf(k)) =>
                        \E j \in 1..Len(info) :
                           j # i /\ info[j].name = info[i].name /\ NonAcademic(info[j]))
                /\ ~Company(aff) => aff \notin Range(CompaniesOf(k))
                /\ aff = AffBiology =>
                     (Academic(aff) /\ Company(aff) /\ aff \in Range(CompaniesOf(k)))

\* one author with the example affiliation alone
C9_Witness ==
    /\ pc = "output"
    /\ Len(papers) = 1
    /\ Len(InfoOf(1)) = 1
    /\ Len(InfoOf(1)[1].name) > 0
    /\ InfoOf(1)[1].affiliations = << AffBiology >>
    /\ Len(NamesOf(1)) = 0
    /\ CompaniesOf(1) = << AffBiology >>

\* C10 as written: a run over no records, the search having found nothing or
\* the fetched document holding no record, ends with no papers, the notice and
\* no error (the failure to open the output file aside).
C10_Original ==
    (pc = "done" /\ raised # "OSError" /\ (SearchReturnedEmpty \/ ZeroRecords)) =>
      /\ Len(papers) = 0
      /\ NoticeLine \in Range(stderr)
      /\ raised = ""

\* C10 amended: a search that found nothing ends the run with no papers, the
\* notice and no error; a fetched document without records is extracted to no
\* papers without an error, and no notice is printed for it: output_csv is
\* called and writes the header alone.
C10_EmptyBatch ==
    /\ SearchReturnedEmpty =>
         /\ pc = "done"
         /\ Len(papers) = 0
         /\ NoticeLine \in Range(stderr)
    /\ (ZeroRecords /\ Called("extract_papers")) =>
         /\ Len(papers) = 0
         /\ raised # "ParseError"
         /\ NoticeLine \notin Range(stderr)
         /\ pc \in { "output", "done" }
         /\ (pc = "done" /\ raised = "") =>
              report = << [ to |-> args.file, header |-> FIELDNAMES, rows |-> << >> ] >>

\* the header-only report of a document without records
C10_Witness ==
    /\ pc = "done"
    /\ ZeroRecords
    /\ raised = ""
    /\ Len(report) = 1
    /\ Len(report[1].rows) = 0
    /\ NoticeLine \notin Range(stderr)

=============================================================================
